---- MODULE Spec2Model ----
(***************************************************************************)
(* Model of unique_files.py: compare directory trees and report, for each  *)
(* directory, the files found only there, by filename or by content hash.  *)
(*                                                                         *)
(* A name is a tuple of characters, a path a tuple of names.  The file     *)
(* system is a function from the paths that exist to their nodes.  A file  *)
(* content is a tuple of chunks, one per f.read(chunk_size) that returns   *)
(* data.  Chunk 0 (Twin) stands for a first chunk that differs from chunk  *)
(* 1 and brings MD5 to the same state, as the published collision pairs    *)
(* do; apart from that pair the digest tells contents apart.               *)
(***************************************************************************)
EXTENDS Integers, Sequences, FiniteSets, TLC

VARIABLES
    fs,            \* the file system (unchanged during a run)
    argv,          \* args.directories, as typed
    by_content,    \* args.by_content
    pc,            \* position of the run
    valid_dirs,    \* main: valid_dirs
    di,            \* index into valid_dirs of the directory loop
    todo,          \* entries of the current rglob('*') not yet yielded
    all_files,     \* get_all_files_recursive: files_in_dir (insertion ordered)
    content_map,   \* get_unique_files_by_content: content_map (insertion ordered)
    cur,           \* file being hashed, <<>> when none
    nreads,        \* number of f.read calls that returned data for cur
    hash_obj,      \* bytes fed to hash_obj.update for cur
    bi,            \* index into content_map of the classification loop
    unique_files,  \* directory -> set of filenames (the result)
    stderr,        \* diagnostics written to sys.stderr
    report,        \* directories handed to print_side_by_side_comparison
    exit_code,     \* -1 while running
    nhashed,       \* history: number of calculate_file_hash calls per <<path, dir>>
    added,         \* history: <<path, dir>> pairs whose name line 67 added
    again,         \* TRUE in the second invocation on the same inputs
    prev           \* result of the first invocation

vars == <<fs, argv, by_content, pc, valid_dirs, di, todo, all_files,
          content_map, cur, nreads, hash_obj, bi, unique_files, stderr,
          report, exit_code, nhashed, added, again, prev>>

\* ---------------------------------------------------------------- bounds
MaxFiles == 3      \* files placed in the trees
MaxChunks == 1     \* chunks of a file content
MaxArgs == 3       \* directory arguments

\* ----------------------------------------------------------------- names
nA == <<"A">>
nB == <<"B">>
nM == <<"M">>
nSub == <<"s">>
nHid == <<".", "g">>
nLnk == <<"k">>
na == <<"a">>
nb == <<"b">>
nc == <<"c">>
ne == <<"e">>
nl == <<"l">>
nu == <<"u">>
nDot == <<".", "h">>
nLnk2 == <<"j">>
nLoop == <<"o">>

pA == <<nA>>
pB == <<nB>>
pM == <<nM>>
pSub == <<nA, nSub>>
pLnk == <<nB, nLnk>>
pLnk2 == <<nB, nLnk2>>
pLoop == <<nB, nLoop>>

EmptyFn == [x \in {} |-> x]
None == <<>>

\* ------------------------------------------------------- path primitives
Name(p) == p[Len(p)]
Parent(p) == SubSeq(p, 1, Len(p) - 1)
StartsWithDot(n) == Len(n) > 0 /\ n[1] = "."

\* what resolving a symlink loop gives: Path.resolve() raises RuntimeError,
\* stat() fails with ELOOP
Loop == <<<<>>>>

\* os.path.realpath: the components of rest are appended to the resolved
\* path done one by one; a component that is a symlink is replaced by its
\* resolved target (targets are absolute), a symlink met again while it is
\* being resolved is a loop; a path that does not exist is kept.
RECURSIVE Realpath(_, _, _, _)
Realpath(f, done, rest, active) ==
    IF rest = <<>> THEN done
    ELSE LET q == Append(done, Head(rest))
         IN IF q \in DOMAIN f /\ f[q].kind = "link"
            THEN IF q \in active THEN Loop
                 ELSE LET t == Realpath(f, <<>>, f[q].target, active \cup {q})
                      IN IF t = Loop THEN Loop ELSE Realpath(f, t, Tail(rest), active)
            ELSE Realpath(f, q, Tail(rest), active)

\* Path.resolve(): chains of links and links inside the path are followed
ResolveIn(f, p) == Realpath(f, <<>>, p, {})
Resolve(p) == ResolveIn(fs, p)

\* Path.is_dir() / Path.is_file(): follow symlinks, False when missing or
\* when the links loop.
IsDirIn(f, p) ==
    LET r == ResolveIn(f, p) IN r # Loop /\ r \in DOMAIN f /\ f[r].kind = "dir"
IsDir(p) == IsDirIn(fs, p)
IsFile(p) ==
    LET r == Resolve(p) IN r # Loop /\ r \in DOMAIN fs /\ fs[r].kind = "file"

\* os.scandir of a real directory
Listdir(d) == {p \in DOMAIN fs : Len(p) = Len(d) + 1 /\ Parent(p) = d}

\* Path.rglob('*'): every entry below d; '**' descends into the
\* sub-directories that are not symlinks.
RECURSIVE RGlob(_)
RGlob(d) ==
    LET kids == Listdir(d)
    IN kids \cup UNION {RGlob(k) : k \in {q \in kids : fs[q].kind = "dir"}}

\* the filter of lines 36 and 52
Skipped(p) == StartsWithDot(Name(p)) \/ ~IsFile(p)

\* a first chunk other than chunk 1 that leaves MD5 in the same state
Twin == 0

\* hash_obj.hexdigest(): a non-empty string; the bytes fed decide it, and
\* two inputs that differ only in starting with chunk 1 or with its twin
\* have the same digest
Hexdigest(h) ==
    <<0>> \o (IF Len(h) > 0 /\ h[1] = Twin THEN <<1>> \o Tail(h) ELSE h)

\* ------------------------------------------------------ insertion-ordered dicts
\* A dict is a tuple of [key, val] records in insertion order.
Keys(m) == {m[i].key : i \in 1..Len(m)}

\* files_in_dir[dir_path] = files
DictSet(m, k, v) ==
    IF k \in Keys(m)
    THEN [i \in 1..Len(m) |-> IF m[i].key = k THEN [key |-> k, val |-> v] ELSE m[i]]
    ELSE Append(m, [key |-> k, val |-> v])

\* variant: the bucket is assigned instead of appended to
MapAppendOverwrite(m, h, loc) ==
    IF h \in Keys(m)
    THEN [i \in 1..Len(m) |-> IF m[i].key = h THEN [key |-> h, val |-> <<loc>>] ELSE m[i]]
    ELSE Append(m, [key |-> h, val |-> <<loc>>])

\* content_map[file_hash].append(loc), content_map a defaultdict(list)
MapAppend(m, h, loc) ==
    IF h \in Keys(m)
    THEN [i \in 1..Len(m) |->
            IF m[i].key = h THEN [key |-> h, val |-> Append(m[i].val, loc)] ELSE m[i]]
    ELSE Append(m, [key |-> h, val |-> <<loc>>])

Range(s) == {s[i] : i \in 1..Len(s)}

\* ------------------------------------------------------------------ inputs
DirNode == [kind |-> "dir", target |-> <<>>, content |-> <<>>, failAt |-> -1]
LinkNode(t) == [kind |-> "link", target |-> t, content |-> <<>>, failAt |-> -1]
\* failAt: -1 the file reads to the end, 0 open() raises OSError,
\* j >= 1 the j-th f.read() raises OSError
FileNode(k, fa) == [kind |-> "file", target |-> <<>>, content |-> [i \in 1..k |-> i], failAt |-> fa]

Readable == {FileNode(k, -1) : k \in 0..MaxChunks}
\* a one-chunk file holding the twin of chunk 1
TwinNode == [kind |-> "file", target |-> <<>>, content |-> <<Twin>>, failAt |-> -1]
Unreadable == {FileNode(MaxChunks, j) : j \in 0..MaxChunks}

\* the places a file or symlink can be put, with the nodes it can be
Options ==
    (<<nA, na>> :> Readable) @@
    (<<nA, nb>> :> Readable) @@
    (<<nA, nDot>> :> {FileNode(0, -1)}) @@
    (<<nA, nSub, na>> :> Readable) @@
    (<<nA, nHid, ne>> :> {FileNode(1, -1)}) @@
    (<<nB, na>> :> Readable) @@
    (<<nB, nc>> :> Readable \cup {TwinNode}) @@
    (<<nB, nu>> :> Unreadable) @@
    (<<nB, nl>> :> {LinkNode(<<nA, na>>)}) @@
    (pLnk :> {LinkNode(pSub)})

RECURSIVE Populate(_)
Populate(S) ==
    IF S = {} THEN {EmptyFn}
    ELSE LET p == CHOOSE x \in S : TRUE
         IN {(p :> n) @@ g : n \in Options[p], g \in Populate(S \ {p})}

\* the directories a set of paths lies in; the two top directories always exist
Ancestors(P) == {pA, pB} \cup UNION {{SubSeq(p, 1, k) : k \in 1..(Len(p) - 1)} : p \in P}

WithDirs(f) == f @@ [d \in Ancestors(DOMAIN f) |-> DirNode]

Trees == {WithDirs(f) : f \in UNION {Populate(S) :
              S \in {T \in SUBSET DOMAIN Options : Cardinality(T) <= MaxFiles}}}

\* one populated tree for the runs that vary the arguments: B/k -> A/s,
\* B/j -> B/k (a link to a link), B/l -> B/j/a (a link through a linked
\* directory) and B/o -> B/o (a loop)
RichTree ==
    WithDirs((<<nA, na>> :> FileNode(1, -1)) @@
             (<<nA, nSub, na>> :> FileNode(0, -1)) @@
             (<<nB, nc>> :> FileNode(1, -1)) @@
             (pLnk :> LinkNode(pSub)) @@
             (pLnk2 :> LinkNode(pLnk)) @@
             (<<nB, nl>> :> LinkNode(<<nB, nLnk2, na>>)) @@
             (pLoop :> LinkNode(pLoop)))

Roots == {pA, pB, pLnk2, pLoop, pM}
RECURSIVE SeqsUpTo(_, _)
SeqsUpTo(S, n) ==
    IF n = 0 THEN {<<>>}
    ELSE LET shorter == SeqsUpTo(S, n - 1)
         IN shorter \cup {Append(s, x) : s \in {t \in shorter : Len(t) = n - 1}, x \in S}
ArgLists == SeqsUpTo(Roots, MaxArgs) \ {<<>>}
\* the argument lists the varied trees are compared under: two siblings,
\* and a directory with one nested in it
TreeArgs == {<<pA, pB>>, <<pSub, pA>>}

NoResult == [unique_files |-> EmptyFn, exit_code |-> -1]

Init ==
    /\ \/ fs \in Trees /\ argv \in TreeArgs
       \/ fs = RichTree /\ argv \in ArgLists
    /\ by_content \in BOOLEAN
    /\ pc = "main"
    /\ valid_dirs = <<>>
    /\ di = 0
    /\ todo = {}
    /\ all_files = <<>>
    /\ content_map = <<>>
    /\ cur = None
    /\ nreads = 0
    /\ hash_obj = <<>>
    /\ bi = 0
    /\ unique_files = EmptyFn
    /\ stderr = <<>>
    /\ report = [printed |-> FALSE, dirs |-> <<>>]
    /\ exit_code = -1
    /\ nhashed = EmptyFn
    /\ added = {}
    /\ again = FALSE
    /\ prev = NoResult

\* ------------------------------------------------------------------- main
Msg(k, p) == [kind |-> k, path |-> p]

\* main, lines 131-150: the two argument checks and the choice of the mode
Main ==
    /\ pc = "main"
    /\ IF Len(argv) < 2
       THEN /\ stderr' = Append(stderr, Msg("at_least_2_directories", <<>>))
            /\ exit_code' = 1
            /\ pc' = "exit"
            /\ UNCHANGED <<valid_dirs, di>>
       ELSE LET directories == [i \in 1..Len(argv) |-> Resolve(argv[i])]
                valid == SelectSeq(directories, IsDir)
            IN IF Loop \in Range(directories)
               THEN \* line 137: RuntimeError is not caught, the traceback ends the run
                    /\ stderr' = Append(stderr, Msg("traceback_symlink_loop", <<>>))
                    /\ exit_code' = 1
                    /\ pc' = "exit"
                    /\ UNCHANGED <<valid_dirs, di>>
               ELSE IF Len(valid) < 2
               THEN /\ stderr' = Append(stderr, Msg("at_least_2_valid_directories", <<>>))
                    /\ exit_code' = 1
                    /\ pc' = "exit"
                    /\ UNCHANGED <<valid_dirs, di>>
               ELSE /\ valid_dirs' = valid
                    /\ di' = 1
                    /\ pc' = IF by_content THEN "content_dir" ELSE "name_dir"
                    /\ UNCHANGED <<stderr, exit_code>>
    /\ UNCHANGED <<fs, argv, by_content, todo, all_files, content_map, cur, nreads,
                   hash_obj, bi, unique_files, report, nhashed, added, again, prev>>

\* ---------------------------------------------------------------- name mode
\* get_all_files_recursive, lines 29-40: one directory of the loop
NameScanDir ==
    /\ pc = "name_dir"
    /\ IF di > Len(valid_dirs)
       THEN /\ pc' = "name_unique"
            /\ di' = 1
            /\ UNCHANGED <<all_files, stderr>>
       ELSE LET dir_path == Resolve(valid_dirs[di])
            IN /\ pc' = pc
               /\ di' = di + 1
               /\ IF ~IsDir(dir_path)
                  THEN /\ stderr' = Append(stderr, Msg("not_a_directory", dir_path))
                       /\ UNCHANGED all_files
                  ELSE /\ all_files' = DictSet(all_files, dir_path,
                                          {Name(p) : p \in {q \in RGlob(dir_path) : ~Skipped(q)}})
                       /\ UNCHANGED stderr
    /\ UNCHANGED <<fs, argv, by_content, valid_dirs, todo, content_map, cur, nreads,
                   hash_obj, bi, unique_files, report, exit_code, nhashed, added, again, prev>>

\* variant: the test other_dir != dir_path is missing
OthersOwn(af, dir_path) == UNION {af[j].val : j \in 1..Len(af)}

\* variant: others is never updated
OthersNone(af, dir_path) == {}

\* lines 154-157: the names found in the other directories
Others(af, dir_path) ==
    UNION {af[j].val : j \in {k \in 1..Len(af) : af[k].key # dir_path}}

\* main, lines 152-158: one directory of the loop over all_files.items()
NameUnique ==
    /\ pc = "name_unique"
    /\ IF di > Len(all_files)
       THEN /\ pc' = "print"
            /\ UNCHANGED <<di, unique_files>>
       ELSE LET dir_path == all_files[di].key
                files == all_files[di].val
                others == Others(all_files, dir_path)
            IN /\ unique_files' = (dir_path :> (files \ others)) @@ unique_files
               /\ di' = di + 1
               /\ pc' = pc
    /\ UNCHANGED <<fs, argv, by_content, valid_dirs, todo, all_files, content_map, cur,
                   nreads, hash_obj, bi, stderr, report, exit_code, nhashed, added, again, prev>>

\* ------------------------------------------------------------- content mode
\* variant: the loop stops one directory early
FirstPassDoneEarly(i, dirs) == i >= Len(dirs)

\* line 47: the loop over the directories has visited them all
FirstPassDone(i, dirs) == i > Len(dirs)

\* variant: the test of line 55 is missing
StoreHashAlways(m, file_hash, loc) == MapAppend(m, file_hash, loc)

\* lines 55-56: a hash is indexed, None is dropped
StoreHash(m, file_hash, loc) ==
    IF file_hash # None THEN MapAppend(m, file_hash, loc) ELSE m

\* variant: only the first location of the bucket is looked at
DirsPresentFirst(locations) == {locations[1][2]}

\* line 62: the directories a bucket spans
DirsPresent(locations) == {locations[j][2] : j \in 1..Len(locations)}

\* line 66: the file lies directly in one of the compared directories
ParentIsRoot(file_path, directories) ==
    Resolve(Parent(file_path)) \in {Resolve(directories[k]) : k \in 1..Len(directories)}

\* get_unique_files_by_content, lines 47-51 and 59: head of the first loop
ContentNextDir ==
    /\ pc = "content_dir"
    /\ IF FirstPassDone(di, valid_dirs)
       THEN /\ unique_files' = [d \in Range(valid_dirs) |-> {}]
            /\ bi' = 1
            /\ pc' = "classify"
            /\ UNCHANGED <<di, todo>>
       ELSE LET dir_path == Resolve(valid_dirs[di])
            IN IF ~IsDir(dir_path)
               THEN /\ di' = di + 1
                    /\ UNCHANGED <<pc, todo, unique_files, bi>>
               ELSE /\ todo' = RGlob(dir_path)
                    /\ pc' = "content_scan"
                    /\ UNCHANGED <<di, unique_files, bi>>
    /\ UNCHANGED <<fs, argv, by_content, valid_dirs, all_files, content_map, cur, nreads,
                   hash_obj, stderr, report, exit_code, nhashed, added, again, prev>>

\* line 51: the generator is exhausted
ContentEndDir ==
    /\ pc = "content_scan"
    /\ todo = {}
    /\ di' = di + 1
    /\ pc' = "content_dir"
    /\ UNCHANGED <<fs, argv, by_content, valid_dirs, todo, all_files, content_map, cur,
                   nreads, hash_obj, bi, unique_files, stderr, report, exit_code,
                   nhashed, added, again, prev>>

Bump(f, k) == IF k \in DOMAIN f THEN [f EXCEPT ![k] = @ + 1] ELSE (k :> 1) @@ f

\* lines 51-54 and 16-18: the next entry, in any order; the filter; open()
ContentNextEntry ==
    /\ pc = "content_scan"
    /\ \E file_path \in todo :
         /\ todo' = todo \ {file_path}
         /\ IF Skipped(file_path)
            THEN UNCHANGED <<pc, cur, nreads, hash_obj, stderr, nhashed, content_map>>
            ELSE /\ nhashed' = Bump(nhashed, <<file_path, Resolve(valid_dirs[di])>>)
                 /\ IF fs[Resolve(file_path)].failAt = 0
                    THEN /\ stderr' = Append(stderr, Msg("could_not_read", file_path))
                         /\ content_map' = StoreHash(content_map, None,
                                                     <<file_path, Resolve(valid_dirs[di])>>)
                         /\ UNCHANGED <<pc, cur, nreads, hash_obj>>
                    ELSE /\ cur' = file_path
                         /\ nreads' = 0
                         /\ hash_obj' = <<>>
                         /\ pc' = "hashing"
                         /\ UNCHANGED <<stderr, content_map>>
    /\ UNCHANGED <<fs, argv, by_content, valid_dirs, di, all_files, bi,
                   unique_files, report, exit_code, added, again, prev>>

\* calculate_file_hash, lines 19-24, and lines 55-56: one f.read(chunk_size)
ReadChunk ==
    /\ pc = "hashing"
    /\ LET node == fs[Resolve(cur)]
           k == nreads + 1
       IN IF node.failAt = k
          THEN /\ stderr' = Append(stderr, Msg("could_not_read", cur))
               /\ content_map' = StoreHash(content_map, None, <<cur, Resolve(valid_dirs[di])>>)
               /\ cur' = None
               /\ pc' = "content_scan"
               /\ UNCHANGED <<nreads, hash_obj>>
          ELSE IF k > Len(node.content)
          THEN LET file_hash == Hexdigest(hash_obj)
               IN /\ content_map' = StoreHash(content_map, file_hash,
                                              <<cur, Resolve(valid_dirs[di])>>)
                  /\ cur' = None
                  /\ pc' = "content_scan"
                  /\ UNCHANGED <<nreads, hash_obj, stderr>>
          ELSE /\ hash_obj' = Append(hash_obj, node.content[k])
               /\ nreads' = k
               /\ UNCHANGED <<cur, pc, content_map, stderr>>
    /\ UNCHANGED <<fs, argv, by_content, valid_dirs, di, todo, all_files, bi,
                   unique_files, report, exit_code, nhashed, added, again, prev>>

\* lines 61-69: one bucket of content_map.items(), or the return
Classify ==
    /\ pc = "classify"
    /\ IF bi > Len(content_map)
       THEN /\ pc' = "print"
            /\ UNCHANGED <<bi, unique_files, added>>
       ELSE LET locations == content_map[bi].val
                dirs_present == DirsPresent(locations)
            IN /\ bi' = bi + 1
               /\ pc' = pc
               /\ IF Cardinality(dirs_present) = 1
                  THEN LET unique_dir == CHOOSE d \in dirs_present : TRUE
                           hits == {j \in 1..Len(locations) :
                                      ParentIsRoot(locations[j][1], valid_dirs)}
                       IN /\ unique_files' = [unique_files EXCEPT ![unique_dir] =
                                                @ \cup {Name(locations[j][1]) : j \in hits}]
                          /\ added' = added \cup {<<locations[j][1], unique_dir>> : j \in hits}
                  ELSE UNCHANGED <<unique_files, added>>
    /\ UNCHANGED <<fs, argv, by_content, valid_dirs, di, todo, all_files, content_map,
                   cur, nreads, hash_obj, stderr, report, exit_code, nhashed, again, prev>>

\* line 160 and the normal end of main
SideBySide ==
    /\ pc = "print"
    /\ report' = [printed |-> TRUE, dirs |-> valid_dirs]
    /\ exit_code' = 0
    /\ pc' = "done"
    /\ UNCHANGED <<fs, argv, by_content, valid_dirs, di, todo, all_files, content_map,
                   cur, nreads, hash_obj, bi, unique_files, stderr, nhashed, added, again, prev>>

\* the same command line is run a second time on the unchanged trees
RunAgain ==
    /\ pc \in {"done", "exit"}
    /\ ~again
    /\ again' = TRUE
    /\ prev' = [unique_files |-> unique_files, exit_code |-> exit_code]
    /\ pc' = "main"
    /\ valid_dirs' = <<>>
    /\ di' = 0
    /\ todo' = {}
    /\ all_files' = <<>>
    /\ content_map' = <<>>
    /\ cur' = None
    /\ nreads' = 0
    /\ hash_obj' = <<>>
    /\ bi' = 0
    /\ unique_files' = EmptyFn
    /\ stderr' = <<>>
    /\ report' = [printed |-> FALSE, dirs |-> <<>>]
    /\ exit_code' = -1
    /\ nhashed' = EmptyFn
    /\ added' = {}
    /\ UNCHANGED <<fs, argv, by_content>>

Next ==
    \/ Main
    \/ NameScanDir
    \/ NameUnique
    \/ ContentNextDir
    \/ ContentEndDir
    \/ ContentNextEntry
    \/ ReadChunk
    \/ Classify
    \/ SideBySide
    \/ RunAgain

Spec == Init /\ [][Next]_vars

\* =================================================================== claims
\* vocabulary of the statements
Dirs == Range(valid_dirs)
Found(d) == {p \in RGlob(d) : ~Skipped(p)}
NamesFound(d) == {Name(p) : p \in Found(d)}
Bytes(p) == fs[Resolve(p)].content
Digest(p) == Hexdigest(Bytes(p))
Hashes(p) == fs[Resolve(p)].failAt = -1
Indexed == UNION {Range(content_map[i].val) : i \in 1..Len(content_map)}
Warnings(p) == Cardinality({j \in 1..Len(stderr) : stderr[j] = Msg("could_not_read", p)})
ScansMeeting(p) == Cardinality({i \in 1..Len(valid_dirs) : p \in Found(valid_dirs[i])})
Classified == by_content /\ pc \in {"print", "done"}

\* C1: in name mode a filename found by the scan is in the UniqueSet of d
\* exactly when it occurs in d and in no other compared directory.
C1_NameUnique ==
    (pc = "done" /\ ~by_content) =>
        /\ DOMAIN unique_files = Dirs
        /\ \A d \in Dirs :
             /\ unique_files[d] \subseteq NamesFound(d)
             /\ \A f \in UNION {NamesFound(e) : e \in Dirs} :
                  f \in unique_files[d] <=>
                      (f \in NamesFound(d) /\ \A e \in Dirs \ {d} : f \notin NamesFound(e))

C1_Witness ==
    /\ pc = "done" /\ ~by_content
    /\ \E d \in Dirs : \E e \in Dirs \ {d} :
         /\ unique_files[d] # {}
         /\ NamesFound(d) \cap NamesFound(e) # {}

\* C2: in content mode, when two hashed files of equal hash lie in two
\* different compared directories, neither is added to any UniqueSet, and a
\* UniqueSet holds nothing but the names of the files added to it.
C2_SharedContentExcluded ==
    Classified =>
        /\ \A d \in Dirs : unique_files[d] = {Name(a[1]) : a \in {b \in added : b[2] = d}}
        /\ \A d1 \in Dirs : \A d2 \in Dirs \ {d1} :
             \A p1 \in Found(d1) : \A p2 \in Found(d2) :
                (Hashes(p1) /\ Hashes(p2) /\ Digest(p1) = Digest(p2)) =>
                    \A d \in Dirs : <<p1, d>> \notin added /\ <<p2, d>> \notin added

C2_Witness ==
    /\ Classified /\ pc = "done"
    /\ \E d1 \in Dirs : \E d2 \in Dirs \ {d1} :
         \E p1 \in Found(d1) : \E p2 \in Found(d2) :
            /\ Hashes(p1) /\ Hashes(p2) /\ Digest(p1) = Digest(p2)
            /\ Name(p1) # Name(p2)
            /\ ParentIsRoot(p1, valid_dirs) /\ ParentIsRoot(p2, valid_dirs)

\* C3: in content mode every file the scan of d finds, at any depth, that
\* hashes and shares its hash with no file of another compared directory
\* is in the UniqueSet of d.
C3_UniqueContentIncluded ==
    (Classified /\ pc = "done") =>
        \A d \in Dirs : \A p \in Found(d) :
            ( /\ Hashes(p)
              /\ \A e \in Dirs \ {d} : \A q \in Found(e) :
                    Hashes(q) => Digest(q) # Digest(p) )
            => Name(p) \in unique_files[d]

\* C4: nothing whose own name starts with a dot and nothing below a
\* directory whose name starts with a dot is in a scan result or a UniqueSet.
BelowHidden(p, d) == \E k \in (Len(d) + 1)..Len(p) : StartsWithDot(p[k])
VisibleNames(d) == {Name(p) : p \in {q \in RGlob(d) : IsFile(q) /\ ~BelowHidden(q, d)}}
C4_NoHidden ==
    /\ \A i \in 1..Len(all_files) : all_files[i].val \subseteq VisibleNames(all_files[i].key)
    /\ \A loc \in Indexed : ~BelowHidden(loc[1], loc[2])
    /\ \A d \in DOMAIN unique_files : unique_files[d] \subseteq VisibleNames(d)

\* C5: a file that cannot be opened or read gets one warning per scan that
\* meets it, is in no bucket and in no UniqueSet, hides no other file, and
\* every other file is still hashed and classified.
C5_ReadErrorSkipped ==
    (by_content /\ pc \in {"classify", "print", "done"}) =>
        /\ exit_code # 1
        /\ \A d \in Dirs : \A p \in Found(d) :
             /\ nhashed[<<p, d>>] = Cardinality({i \in 1..Len(valid_dirs) : valid_dirs[i] = d})
             /\ Hashes(p) => <<p, d>> \in Indexed
             /\ ~Hashes(p) =>
                  /\ Warnings(p) = ScansMeeting(p)
                  /\ <<p, d>> \notin Indexed
                  /\ \A e \in Dirs : <<p, e>> \notin added
             /\ ( /\ pc = "done"
                  /\ Hashes(p)
                  /\ ParentIsRoot(p, valid_dirs)
                  /\ \A e \in Dirs \ {d} : \A q \in Found(e) :
                        Hashes(q) => Digest(q) # Digest(p) )
                => Name(p) \in unique_files[d]

C5_Witness ==
    /\ by_content /\ pc = "done"
    /\ \E d \in Dirs : \E e \in Dirs \ {d} :
         \E p \in Found(d) : \E q \in Found(e) :
            /\ ~Hashes(p) /\ Warnings(p) > 0
            /\ Hashes(q) /\ Bytes(q) = Bytes(p)
            /\ Name(q) \in unique_files[e]

\* C6: every argument that is not a directory gets exactly one diagnostic of
\* its own; with two valid directories left the run reports on exactly those
\* and exits 0, with fewer it exits 1 without a report.
BadArgs == {i \in 1..Len(argv) : ~IsDir(Resolve(argv[i]))}
RootDiagnostics(p) ==
    Cardinality({j \in 1..Len(stderr) : stderr[j] = Msg("not_a_directory", p)})
C6_InvalidRoots ==
    (pc \in {"done", "exit"} /\ Len(argv) >= 2) =>
        /\ \A i \in BadArgs :
             RootDiagnostics(Resolve(argv[i])) =
                 Cardinality({j \in BadArgs : Resolve(argv[j]) = Resolve(argv[i])})
        /\ (Len(argv) - Cardinality(BadArgs) >= 2) =>
             /\ exit_code = 0
             /\ report.printed
             /\ report.dirs = SelectSeq([i \in 1..Len(argv) |-> Resolve(argv[i])], IsDir)
        /\ (Len(argv) - Cardinality(BadArgs) < 2) =>
             /\ exit_code = 1
             /\ ~report.printed

\* C7: a symlinked file is in no scan result (there is no flag to set, so the
\* default applies to every run), and nothing is reached through a symlinked
\* directory.
IsLink(p) == p \in DOMAIN fs /\ fs[p].kind = "link"
ThroughLink(p) == \E k \in 1..(Len(p) - 1) : IsLink(SubSeq(p, 1, k))
RegularNames(d) == {Name(p) : p \in {q \in RGlob(d) : IsFile(q) /\ ~IsLink(q)}}
C7_NoSymlinkedFiles ==
    /\ \A i \in 1..Len(all_files) : all_files[i].val \subseteq RegularNames(all_files[i].key)
    /\ \A loc \in Indexed : ~IsLink(loc[1]) /\ ~ThroughLink(loc[1])
    /\ \A d \in DOMAIN unique_files : unique_files[d] \subseteq RegularNames(d)

\* C8: a second run on the same arguments and unchanged trees ends with the
\* same UniqueSets and the same exit code as the first, whatever the order
\* in which each run met the files.
C8_SecondRunSame ==
    (again /\ pc \in {"done", "exit"}) =>
        /\ unique_files = prev.unique_files
        /\ exit_code = prev.exit_code

C8_Witness ==
    /\ again /\ pc = "done" /\ by_content
    /\ Len(content_map) >= 2
    /\ \E d \in Dirs : unique_files[d] # {}
    /\ \E i \in 1..Len(content_map) : Len(content_map[i].val) >= 2

\* C9 as stated: the UniqueSets of two distinct directories share no entry.
C9_Disjoint ==
    pc = "done" =>
        \A d1 \in DOMAIN unique_files : \A d2 \in DOMAIN unique_files \ {d1} :
            unique_files[d1] \cap unique_files[d2] = {}

\* C9 amended: in name mode the UniqueSets are disjoint; in content mode no
\* file is added to two UniqueSets, and a name two UniqueSets share stands
\* for two files of that name with different content hashes.
C9_DisjointByFile ==
    pc = "done" =>
        /\ ~by_content =>
             \A d1 \in DOMAIN unique_files : \A d2 \in DOMAIN unique_files \ {d1} :
                 unique_files[d1] \cap unique_files[d2] = {}
        /\ by_content =>
             /\ \A a \in added : \A b \in added : a[1] = b[1] => a[2] = b[2]
             /\ \A d1 \in Dirs : \A d2 \in Dirs \ {d1} :
                  \A n \in unique_files[d1] \cap unique_files[d2] :
                     \E a \in added : \E b \in added :
                        /\ a[2] = d1 /\ b[2] = d2
                        /\ Name(a[1]) = n /\ Name(b[1]) = n
                        /\ Digest(a[1]) # Digest(b[1])

C9_Witness ==
    /\ pc = "done" /\ by_content
    /\ \E d1 \in Dirs : \E d2 \in Dirs \ {d1} : unique_files[d1] \cap unique_files[d2] # {}

\* C10: in content mode the directories are scanned in argument order, a
\* file is hashed to the end before the next entry is taken, the index only
\* grows during the first pass and is left alone afterwards, and no name is
\* classified before every file of every directory has been hashed.
Grows(m, n) ==
    /\ Len(n) >= Len(m)
    /\ \A i \in 1..Len(m) :
         /\ n[i].key = m[i].key
         /\ Len(n[i].val) >= Len(m[i].val)
         /\ SubSeq(n[i].val, 1, Len(m[i].val)) = m[i].val
AllHashed ==
    \A i \in 1..Len(valid_dirs) : \A p \in Found(valid_dirs[i]) :
        /\ <<p, valid_dirs[i]>> \in DOMAIN nhashed
        /\ Hashes(p) => <<p, valid_dirs[i]>> \in Indexed
C10_Step ==
    (by_content /\ pc \notin {"main", "done", "exit"}) =>
        /\ di' \in {di, di + 1}
        /\ Grows(content_map, content_map')
        /\ pc \in {"classify", "print"} => content_map' = content_map
        /\ pc \in {"content_dir", "content_scan", "hashing"} =>
             \A d \in DOMAIN unique_files' : unique_files'[d] = {}
        /\ pc = "hashing" => (todo' = todo /\ di' = di /\ nhashed' = nhashed)
        /\ nhashed' # nhashed =>
             /\ \A i \in 1..(di - 1) : \A p \in Found(valid_dirs[i]) :
                  <<p, valid_dirs[i]>> \in DOMAIN nhashed
             /\ \A k \in DOMAIN nhashed' \ DOMAIN nhashed : k[2] = valid_dirs[di]
        /\ unique_files' # unique_files => AllHashed
C10_Phases == [][C10_Step]_vars

C10_Witness ==
    /\ by_content /\ pc = "classify" /\ bi > 1
    /\ \E d \in Dirs : unique_files[d] # {}
    /\ Len(content_map) >= 2
    /\ \E d \in Dirs : \E p \in Found(d) : Hashes(p) /\ Len(Bytes(p)) >= 1

====
